---- MODULE Spec2Model ----
(***************************************************************************)
(* PaperTradingBroker (src/backend/paper.py): the simulated brokerage      *)
(* account.  Prices are modelled as integers (currency units), order       *)
(* identifiers (uuid4 strings in the source) as a fresh counter.           *)
(* RateLimiter (src/lib/A_utils.py): the call-rate guard, with time in     *)
(* whole seconds.                                                          *)
(***************************************************************************)
EXTENDS Integers, Sequences, FiniteSets, TLC

\* ---- bounds of the model ------------------------------------------------
MaxPrice == 2
MaxQty == 2
MaxOrders == 3
MaxCalls == 2
MaxPeriod == 2
MaxTime == 5
MaxEntries == 4
StartBalance == 4
\* cap on the cash balance the exploration follows
MaxBalance == 8

Symbols == {"A"}

\* Python's None, the default of the optional arguments stop_loss and limit.
None == 0 - 1

Prices == 1..MaxPrice
\* what the price feed can answer: 0 stands for a failed fetch (0.0)
Quotes == 0..MaxPrice
Quantities == 1..MaxQty
OptPrices == {None} \cup Prices

MarketStatuses == {"Open", "Closed"}

\* what the collaborators answer during one call: the price feed's quote of
\* every symbol and the market calendar's status
Feeds == [quote : [Symbols -> Quotes], market : MarketStatuses]

VARIABLES balance, holdings, orders, executed_orders, next_id, last,
          INITIAL_BALANCE, limiter, clock

vars == <<balance, holdings, orders, executed_orders, next_id, last,
          INITIAL_BALANCE, limiter, clock>>

\* ---- helpers ------------------------------------------------------------

\* Python truthiness of an optional float: None and 0.0 are falsy.
Truthy(x) == x # None /\ x # 0

\* mutant: the element after the removed one goes with it
RECURSIVE RemoveFirst_withNext(_, _)
RemoveFirst_withNext(seq, x) ==
    IF seq = <<>> THEN <<>>
    ELSE IF Head(seq) = x
    THEN IF Len(seq) >= 2 THEN Tail(Tail(seq)) ELSE <<>>
    ELSE <<Head(seq)>> \o RemoveFirst_withNext(Tail(seq), x)

\* list.remove(x): removes the first element equal to x.
RECURSIVE RemoveFirst(_, _)
RemoveFirst(seq, x) ==
    IF seq = <<>> THEN <<>>
    ELSE IF Head(seq) = x THEN Tail(seq)
    ELSE <<Head(seq)>> \o RemoveFirst(Tail(seq), x)

\* x in list
InList(seq, x) == \E i \in 1..Len(seq) : seq[i] = x

\* holdings[symbol] = qty (creating or overwriting the key)
SetHolding(h, symbol, qty) ==
    [s \in (DOMAIN h) \cup {symbol} |-> IF s = symbol THEN qty ELSE h[s]]

\* del holdings[symbol]
DelHolding(h, symbol) == [s \in (DOMAIN h) \ {symbol} |-> h[s]]

\* the order dict built by buy_stock / sell_stock
NewOrder(id, symbol, quantity, price, type) ==
    [id |-> id, symbol |-> symbol, quantity |-> quantity, price |-> price,
     type |-> type, status |-> "open"]

\* the broker object's fields as one record
Broker == [balance |-> balance, holdings |-> holdings, orders |-> orders,
           executed_orders |-> executed_orders, next_id |-> next_id]

\* get_stock_price(symbol): the feed's answer, 0 when the fetch raised
get_stock_price(feed, symbol) == feed.quote[symbol]

\* get_market_status()
get_market_status(feed) == feed.market

\* ---- execute_order: the matching pass (paper.py 338-430) ----------------

\* mutant: the held quantity is overwritten instead of increased
AddShares_overwrite(h, symbol, quantity) == SetHolding(h, symbol, quantity)

\* holdings[symbol] += quantity, creating the key when absent (352-358 etc.)
AddShares(h, symbol, quantity) ==
    IF symbol \in DOMAIN h
    THEN SetHolding(h, symbol, h[symbol] + quantity)
    ELSE SetHolding(h, symbol, quantity)

\* mutant: an entry that reached zero is kept
DropIfZero_keep(h, symbol) == h

\* "if self.holdings[symbol] == 0: del self.holdings[symbol]" (key present)
DropIfZero(h, symbol) ==
    IF h[symbol] = 0 THEN DelHolding(h, symbol) ELSE h

\* mutant: a stop-loss buy triggers at or below its stop price
Triggered_slBuyBelow(order, current_price) ==
    \/ order.type = "buy"
    \/ order.type = "sell"
    \/ order.type = "limit_buy" /\ current_price <= order.price
    \/ order.type = "limit_sell" /\ current_price >= order.price
    \/ order.type = "sl_sell" /\ current_price <= order.price
    \/ order.type = "sl_buy" /\ current_price <= order.price

\* the trigger condition of each branch of the if/elif chain
Triggered(order, current_price) ==
    \/ order.type = "buy"
    \/ order.type = "sell"
    \/ order.type = "limit_buy" /\ current_price <= order.price
    \/ order.type = "limit_sell" /\ current_price >= order.price
    \/ order.type = "sl_sell" /\ current_price <= order.price
    \/ order.type = "sl_buy" /\ current_price >= order.price

\* One iteration of the loop up to (not including) the status update.
\* raised = TRUE: a KeyError left the loop body at that point; what had been
\* assigned before it stays assigned.
Evaluate(b, feed, order) ==
    LET sym == order.symbol
        current_price == get_stock_price(feed, sym)
        amount == order.quantity * order.price
        removed == RemoveFirst(b.orders, order)
    IN  IF ~Triggered(order, current_price)
        THEN [b |-> b, raised |-> FALSE]
        ELSE IF order.type \in {"buy", "limit_buy"}
        THEN [b |-> [b EXCEPT !.holdings = AddShares(@, sym, order.quantity),
                              !.orders = removed],
              raised |-> FALSE]
        ELSE IF order.type \in {"sell", "limit_sell"}
        THEN IF sym \notin DOMAIN b.holdings
             THEN [b |-> [b EXCEPT !.balance = @ + amount], raised |-> TRUE]
             ELSE [b |-> [b EXCEPT !.balance = @ + amount,
                                   !.holdings = DropIfZero(@, sym),
                                   !.orders = removed],
                   raised |-> FALSE]
        ELSE IF order.type = "sl_sell"
        THEN IF sym \notin DOMAIN b.holdings
             THEN [b |-> [b EXCEPT !.balance = @ + amount], raised |-> TRUE]
             ELSE [b |-> [b EXCEPT !.balance = @ + amount,
                                   !.holdings = DropIfZero(
                                       SetHolding(@, sym, @[sym] - order.quantity), sym),
                                   !.orders = removed],
                   raised |-> FALSE]
        ELSE \* sl_buy
             [b |-> [b EXCEPT !.balance = @ - amount,
                              !.holdings = AddShares(@, sym, order.quantity),
                              !.orders = removed],
              raised |-> FALSE]

\* mutant: the order is recorded in the history without its status changed
Settle_statusOpen(b, order) ==
    IF InList(b.orders, order)
    THEN b
    ELSE [b EXCEPT !.executed_orders = Append(@, order)]

\* mutant: the history is replaced by the order just filled
Settle_replaceHistory(b, order) ==
    IF InList(b.orders, order)
    THEN b
    ELSE [b EXCEPT !.executed_orders = <<[order EXCEPT !.status = "filled"]>>]

\* "if order in self.orders: status = open  else: status = filled; append"
Settle(b, order) ==
    IF InList(b.orders, order)
    THEN b
    ELSE [b EXCEPT !.executed_orders = Append(@, [order EXCEPT !.status = "filled"])]

\* the for loop over self.orders.copy(); an exception ends it (except clause)
RECURSIVE Pass(_, _, _)
Pass(b, feed, snapshot) ==
    IF snapshot = <<>> THEN [b |-> b, raised |-> FALSE]
    ELSE LET r == Evaluate(b, feed, Head(snapshot))
         IN  IF r.raised THEN r
             ELSE Pass(Settle(r.b, Head(snapshot)), feed, Tail(snapshot))

\* mutant: the market status is not looked at
execute_pass_ignoreMarket(b, feed) == Pass(b, feed, b.orders)

\* The iterations of the for loop, one record per order the loop reached:
\* the order, the broker before the iteration (pre), the broker after it
\* (post) and whether the iteration raised.  An exception ends the loop, so
\* the orders of the snapshot after a raising one have no record.
RECURSIVE PassSteps(_, _, _)
PassSteps(b, feed, snapshot) ==
    IF snapshot = <<>> THEN <<>>
    ELSE LET order == Head(snapshot)
             r == Evaluate(b, feed, order)
             post == IF r.raised THEN r.b ELSE Settle(r.b, order)
             step == [order |-> order, pre |-> b, post |-> post,
                      raised |-> r.raised]
         IN  IF r.raised THEN <<step>>
             ELSE <<step>> \o PassSteps(post, feed, Tail(snapshot))

\* the body of execute_order: the broker it leaves and whether its except
\* clause ran ("Error occurred while executing orders")
execute_pass(b, feed) ==
    IF get_market_status(feed) # "Open"
    THEN [b |-> b, raised |-> FALSE]
    ELSE Pass(b, feed, b.orders)

execute_order(b, feed) == execute_pass(b, feed).b

\* ---- values handed back to the caller -----------------------------------

\* a Python list of order ids / a Python bool, with the value's truthiness
RetList(ids) == [type |-> "list", ids |-> ids, truth |-> ids # <<>>]

RetBool(v) == [type |-> "bool", ids |-> <<>>, truth |-> v]

\* An early return: nothing assigned.  A handler's result is the broker after
\* the call (b), the value returned (ret), the broker right after the
\* reservation and before the call of execute_order (mid), whether the
\* call went through (ok) and the error or warning it logged (log).
Rejected(b, ret, log) == [b |-> b, ret |-> ret, mid |-> b, ok |-> FALSE, log |-> log]

Done(b, ret, mid) == [b |-> b, ret |-> ret, mid |-> mid, ok |-> TRUE, log |-> ""]

\* mutant: a price of exactly zero is let through
InvalidPrice_negativeOnly(price) == price < 0

\* "if price <= 0: return"
InvalidPrice(price) == price <= 0

\* ---- buy_stock (paper.py 64-138) ----------------------------------------

IsLimitBuy(limit, price) == Truthy(limit) /\ limit < price

\* mutant: the limit is ignored when the order is priced
BuyPrice_quoteOnly(limit, price) == price

BuyPrice(limit, price) == IF IsLimitBuy(limit, price) THEN limit ELSE price

BuyType(limit, price) == IF IsLimitBuy(limit, price) THEN "limit_buy" ELSE "buy"

\* mutant: the balance check lets a cost one unit above the balance through
InsufficientBalance_offByOne(b, cost) == cost > b.balance + 1

\* "if cost > self.balance: return []"
InsufficientBalance(b, cost) == cost > b.balance

\* orders.append(order); balance -= cost
BuyReserve(b, order, cost) ==
    [b EXCEPT !.orders = Append(@, order),
              !.balance = @ - cost,
              !.next_id = @ + 1]

\* mutant: the stop-loss id is put in front of the parent's
BuyOrderIds_childFirst(order, stop_loss_order, stop_loss) ==
    IF Truthy(stop_loss) THEN <<stop_loss_order.id, order.id>> ELSE <<order.id>>

\* the ids buy_stock returns
BuyOrderIds(order, stop_loss_order, stop_loss) ==
    IF Truthy(stop_loss) THEN <<order.id, stop_loss_order.id>> ELSE <<order.id>>

\* mutant: the stop-loss order is appended before execute_order is called
BuyFinish_childBeforePass(reserved, feed, stop_loss_order, stop_loss) ==
    IF Truthy(stop_loss)
    THEN execute_order([reserved EXCEPT !.orders = Append(@, stop_loss_order),
                                        !.next_id = @ + 1], feed)
    ELSE execute_order(reserved, feed)

\* execute_order(), then "if stop_loss: orders.append(stop_loss_order)"
BuyFinish(reserved, feed, stop_loss_order, stop_loss) ==
    LET passed == execute_order(reserved, feed)
    IN  IF Truthy(stop_loss)
        THEN [passed EXCEPT !.orders = Append(@, stop_loss_order),
                            !.next_id = @ + 1]
        ELSE passed

buy_stock(b, feed, symbol, quantity, stop_loss, limit) ==
    LET price == get_stock_price(feed, symbol)
        cost == quantity * BuyPrice(limit, price)
        order == NewOrder(b.next_id, symbol, quantity,
                          BuyPrice(limit, price), BuyType(limit, price))
        reserved == BuyReserve(b, order, cost)
        stop_loss_order == NewOrder(reserved.next_id, symbol, quantity,
                                    stop_loss, "sl_sell")
    IN  IF InvalidPrice(price) THEN Rejected(b, RetList(<<>>), "Invalid price")
        ELSE IF InsufficientBalance(b, cost)
        THEN Rejected(b, RetList(<<>>), "Insufficient balance")
        ELSE Done(BuyFinish(reserved, feed, stop_loss_order, stop_loss),
                  RetList(BuyOrderIds(order, stop_loss_order, stop_loss)),
                  reserved)

\* ---- sell_stock (paper.py 140-207) --------------------------------------

IsLimitSell(limit, price) == Truthy(limit) /\ limit > price

SellPrice(limit, price) == IF IsLimitSell(limit, price) THEN limit ELSE price

SellType(limit, price) == IF IsLimitSell(limit, price) THEN "limit_sell" ELSE "sell"

\* mutant: only the presence of the key is checked, not the quantity held
InsufficientHoldings_keyOnly(b, symbol, quantity) == symbol \notin DOMAIN b.holdings

\* "if symbol not in self.holdings or quantity > self.holdings[symbol]"
InsufficientHoldings(b, symbol, quantity) ==
    symbol \notin DOMAIN b.holdings \/ quantity > b.holdings[symbol]

\* mutant: the shares are not taken off holdings when the order is placed
SellReserve_noDecrement(b, order) ==
    [b EXCEPT !.orders = Append(@, order), !.next_id = @ + 1]

\* orders.append(order); holdings[symbol] -= quantity
SellReserve(b, order) ==
    [b EXCEPT !.orders = Append(@, order),
              !.holdings = SetHolding(@, order.symbol, @[order.symbol] - order.quantity),
              !.next_id = @ + 1]

\* mutant: the stop-loss order is appended before execute_order is called
SellFinish_childBeforePass(reserved, feed, stop_loss_order, stop_loss) ==
    IF Truthy(stop_loss)
    THEN execute_order([reserved EXCEPT !.orders = Append(@, stop_loss_order),
                                        !.next_id = @ + 1], feed)
    ELSE execute_order(reserved, feed)

\* execute_order(), then "if stop_loss: orders.append(stop_loss_order)"
SellFinish(reserved, feed, stop_loss_order, stop_loss) ==
    LET passed == execute_order(reserved, feed)
    IN  IF Truthy(stop_loss)
        THEN [passed EXCEPT !.orders = Append(@, stop_loss_order),
                            !.next_id = @ + 1]
        ELSE passed

\* "return True"
SellReturn(order, stop_loss_order, stop_loss) == RetBool(TRUE)

sell_stock(b, feed, symbol, quantity, stop_loss, limit) ==
    LET price == get_stock_price(feed, symbol)
        order == NewOrder(b.next_id, symbol, quantity,
                          SellPrice(limit, price), SellType(limit, price))
        reserved == SellReserve(b, order)
        stop_loss_order == NewOrder(reserved.next_id, symbol, quantity,
                                    stop_loss, "sl_buy")
    IN  IF InvalidPrice(price) THEN Rejected(b, RetBool(FALSE), "Invalid price")
        ELSE IF InsufficientHoldings(b, symbol, quantity)
        THEN Rejected(b, RetBool(FALSE), "Insufficient holdings")
        ELSE Done(SellFinish(reserved, feed, stop_loss_order, stop_loss),
                  SellReturn(order, stop_loss_order, stop_loss),
                  reserved)

\* ---- place_order (paper.py 250-336) --------------------------------------

\* the order_type argument: "buy", "sell", or anything else
OrderTypes == {"buy", "sell", "hold"}

\* "if limit:" price = limit, type = "limit_" + order_type
PlacePrice(limit, price) == IF Truthy(limit) THEN limit ELSE price

PlaceType(order_type, limit) ==
    IF Truthy(limit)
    THEN (IF order_type = "buy" THEN "limit_buy" ELSE "limit_sell")
    ELSE order_type

\* "sl_sell" if order_type == "buy" else "sl_buy"
PlaceStopType(order_type) == IF order_type = "buy" THEN "sl_sell" ELSE "sl_buy"

\* self.orders.append(order): nothing else is assigned
PlaceAppend(b, order) ==
    [b EXCEPT !.orders = Append(@, order), !.next_id = @ + 1]

PlaceOrderIds(order, stop_loss_order, stop_loss) ==
    IF Truthy(stop_loss) THEN <<order.id, stop_loss_order.id>> ELSE <<order.id>>

\* price is the caller's argument; both orders are appended before
\* execute_order is called
place_order(b, feed, symbol, quantity, order_type, price, stop_loss, limit) ==
    LET order == NewOrder(b.next_id, symbol, quantity,
                          PlacePrice(limit, price), PlaceType(order_type, limit))
        placed == PlaceAppend(b, order)
        stop_loss_order == NewOrder(placed.next_id, symbol, quantity,
                                    stop_loss, PlaceStopType(order_type))
        handed == IF Truthy(stop_loss)
                  THEN PlaceAppend(placed, stop_loss_order)
                  ELSE placed
    IN  IF order_type \notin {"buy", "sell"}
        THEN Rejected(b, RetList(<<>>), "Invalid order type")
        ELSE IF InvalidPrice(price) THEN Rejected(b, RetList(<<>>), "Invalid price")
        ELSE Done(execute_order(handed, feed),
                  RetList(PlaceOrderIds(order, stop_loss_order, stop_loss)),
                  handed)

\* ---- cancel_order (paper.py 432-468) ------------------------------------

\* mutant: an id that matches no open order selects the first open order
FindOrder_firstOpen(os, order_id) ==
    IF \E i \in 1..Len(os) : os[i].id = order_id
    THEN CHOOSE i \in 1..Len(os) :
             os[i].id = order_id /\ \A j \in 1..(i - 1) : os[j].id # order_id
    ELSE IF os # <<>> THEN 1 ELSE 0

\* index of the first open order with this id, 0 when there is none
FindOrder(os, order_id) ==
    IF \E i \in 1..Len(os) : os[i].id = order_id
    THEN CHOOSE i \in 1..Len(os) :
             os[i].id = order_id /\ \A j \in 1..(i - 1) : os[j].id # order_id
    ELSE 0

\* mutant: a cancelled buy-side order is removed without its cash refunded
cancel_order_noRefund(b, order_id) ==
    LET i == FindOrder(b.orders, order_id)
        order == b.orders[i]
        removed == RemoveFirst(b.orders, order)
    IN  IF i = 0 THEN Rejected(b, RetBool(FALSE), "not found")
        ELSE IF order.type \in {"sl_sell", "sl_buy"}
        THEN Done([b EXCEPT !.orders = removed], RetBool(TRUE), b)
        ELSE IF order.type \in {"buy", "limit_buy"}
        THEN Done([b EXCEPT !.orders = removed], RetBool(TRUE), b)
        ELSE \* sell, limit_sell: holdings[symbol] += quantity raises KeyError
             \* when the key is gone; the order is already removed then
             IF order.symbol \notin DOMAIN b.holdings
             THEN Rejected([b EXCEPT !.orders = removed], RetBool(FALSE),
                           "Error occurred while canceling order")
             ELSE Done([b EXCEPT !.orders = removed,
                                 !.holdings = SetHolding(@, order.symbol,
                                                 @[order.symbol] + order.quantity)],
                       RetBool(TRUE), b)

\* mutant: a cancelled stop-loss order is refunded like a buy-side order
cancel_order_slRefunds(b, order_id) ==
    LET i == FindOrder(b.orders, order_id)
        order == b.orders[i]
        removed == RemoveFirst(b.orders, order)
    IN  IF i = 0 THEN Rejected(b, RetBool(FALSE), "not found")
        ELSE IF order.type \in {"sl_sell", "sl_buy"}
        THEN Done([b EXCEPT !.orders = removed,
                            !.balance = @ + order.quantity * order.price],
                  RetBool(TRUE), b)
        ELSE IF order.type \in {"buy", "limit_buy"}
        THEN Done([b EXCEPT !.orders = removed,
                            !.balance = @ + order.quantity * order.price],
                  RetBool(TRUE), b)
        ELSE \* sell, limit_sell: holdings[symbol] += quantity raises KeyError
             \* when the key is gone; the order is already removed then
             IF order.symbol \notin DOMAIN b.holdings
             THEN Rejected([b EXCEPT !.orders = removed], RetBool(FALSE),
                           "Error occurred while canceling order")
             ELSE Done([b EXCEPT !.orders = removed,
                                 !.holdings = SetHolding(@, order.symbol,
                                                 @[order.symbol] + order.quantity)],
                       RetBool(TRUE), b)

cancel_order(b, order_id) ==
    LET i == FindOrder(b.orders, order_id)
        order == b.orders[i]
        removed == RemoveFirst(b.orders, order)
    IN  IF i = 0 THEN Rejected(b, RetBool(FALSE), "not found")
        ELSE IF order.type \in {"sl_sell", "sl_buy"}
        THEN Done([b EXCEPT !.orders = removed], RetBool(TRUE), b)
        ELSE IF order.type \in {"buy", "limit_buy"}
        THEN Done([b EXCEPT !.orders = removed,
                            !.balance = @ + order.quantity * order.price],
                  RetBool(TRUE), b)
        ELSE \* sell, limit_sell: holdings[symbol] += quantity raises KeyError
             \* when the key is gone; the order is already removed then
             IF order.symbol \notin DOMAIN b.holdings
             THEN Rejected([b EXCEPT !.orders = removed], RetBool(FALSE),
                           "Error occurred while canceling order")
             ELSE Done([b EXCEPT !.orders = removed,
                                 !.holdings = SetHolding(@, order.symbol,
                                                 @[order.symbol] + order.quantity)],
                       RetBool(TRUE), b)

\* ---- get_order_status (paper.py 470-493) --------------------------------

\* mutant: an id that is not open is reported as filled
get_order_status_neverNotFound(b, order_id) ==
    IF \E i \in 1..Len(b.orders) : b.orders[i].id = order_id THEN "Open"
    ELSE "Filled"

get_order_status(b, order_id) ==
    IF \E i \in 1..Len(b.orders) : b.orders[i].id = order_id THEN "Open"
    ELSE IF \E i \in 1..Len(b.executed_orders) : b.executed_orders[i].id = order_id
    THEN "Filled"
    ELSE "Order with this order_id does not exist"

\* ---- RateLimiter (A_utils.py 35-95) ---------------------------------------

WAIT == "wait"
THROW == "throw"
SKIP == "skip"
QUEUE == "queue"

Strategies == {WAIT, THROW, SKIP, QUEUE}

\* RateLimiter(max_calls, period, strategy): calls is the deque of
\* timestamps (newest on the right), queue the number of items in
\* self.queue
RateLimiter(max_calls, period, strategy) ==
    [max_calls |-> max_calls, period |-> period, strategy |-> strategy,
     calls |-> <<>>, queue |-> 0]

\* while self.calls and current_time - self.calls[-1] > self.period:
\*     self.calls.popleft()
\* the test reads the newest timestamp, the pop drops the oldest
RECURSIVE Prune(_, _, _)
Prune(calls, current_time, period) ==
    IF calls # <<>> /\ current_time - calls[Len(calls)] > period
    THEN Prune(Tail(calls), current_time, period)
    ELSE calls

\* deque(maxlen=max_calls).append(x): a full deque drops its left end
AppendMaxlen(calls, x, maxlen) ==
    IF maxlen = 0 THEN calls
    ELSE IF Len(calls) >= maxlen THEN Append(Tail(calls), x)
    ELSE Append(calls, x)

Entered(rl, outcome, slept) == [rl |-> rl, outcome |-> outcome, slept |-> slept]

\* self.calls.append(current_time), and self.queue.put(None) under QUEUE
Record(rl, calls, current_time, slept) ==
    Entered([rl EXCEPT !.calls = AppendMaxlen(calls, current_time, rl.max_calls),
                       !.queue = IF rl.strategy = QUEUE THEN @ + 1 ELSE @],
            "admitted", slept)

\* __enter__ with time.time() = current_time, the lock held throughout:
\* the limiter it leaves, how the call ended and how long it slept
enter(rl, current_time) ==
    LET calls == Prune(rl.calls, current_time, rl.period)
        pruned == [rl EXCEPT !.calls = calls]
        oldest_call == calls[Len(calls)]
        time_to_sleep == rl.period - (current_time - oldest_call)
    IN  IF Len(calls) >= rl.max_calls
        THEN IF rl.strategy = WAIT
             THEN Record(pruned, Tail(calls), current_time,
                         IF time_to_sleep > 0 - 1 THEN time_to_sleep ELSE 0)
             ELSE IF rl.strategy = THROW
             THEN Entered(pruned, "raised", 0)
             ELSE IF rl.strategy = SKIP
             THEN Entered(pruned, "skipped", 0)
             ELSE IF rl.queue > 0
             THEN Record([pruned EXCEPT !.queue = @ - 1], calls, current_time, 0)
             ELSE Entered(pruned, "skipped", 0)
        ELSE Record(pruned, calls, current_time, 0)

\* time.time(), the times at which entries were admitted into the guarded
\* block (after any sleep), and how the latest entry ended
Clock(now, admitted, outcome) ==
    [now |-> now, admitted |-> admitted, outcome |-> outcome]

\* ---- the state machine --------------------------------------------------

EmptyHoldings == [s \in {} |-> 0]

\* the latest call: the operation, what it returned, the ids of the orders it
\* created (parent first), the market status its pass saw ("" when the call
\* never asked the calendar) and the error or warning it logged
Call(op, ret, created, market_status, log) ==
    [op |-> op, ret |-> ret, created |-> created, market |-> market_status,
     log |-> log]

NoCall == Call("none", RetBool(FALSE), <<>>, "", "")

SeenMarket(r, feed) == IF r.ok THEN get_market_status(feed) ELSE ""

\* ids next_id .. b.next_id - 1, in order of creation
CreatedIds(b) == [k \in 1..(b.next_id - next_id) |-> next_id + k - 1]

Init ==
    /\ balance = StartBalance
    /\ holdings = EmptyHoldings
    /\ orders = <<>>
    /\ executed_orders = <<>>
    /\ next_id = 1
    /\ last = NoCall
    /\ INITIAL_BALANCE = StartBalance
    /\ limiter = RateLimiter(1, 1, WAIT)
    /\ clock = Clock(0, <<>>, "none")

Install(b) ==
    /\ b.balance <= MaxBalance
    /\ b.next_id <= MaxOrders + 1
    /\ balance' = b.balance
    /\ holdings' = b.holdings
    /\ orders' = b.orders
    /\ executed_orders' = b.executed_orders
    /\ next_id' = b.next_id
    /\ UNCHANGED <<INITIAL_BALANCE, limiter, clock>>

BuyStock ==
    \E feed \in Feeds, symbol \in Symbols, quantity \in Quantities,
       stop_loss \in OptPrices, limit \in OptPrices :
        LET r == buy_stock(Broker, feed, symbol, quantity, stop_loss, limit)
        IN  /\ Install(r.b)
            /\ last' = Call("buy_stock", r.ret, CreatedIds(r.b), SeenMarket(r, feed), r.log)

SellStock ==
    \E feed \in Feeds, symbol \in Symbols, quantity \in Quantities,
       stop_loss \in OptPrices, limit \in OptPrices :
        LET r == sell_stock(Broker, feed, symbol, quantity, stop_loss, limit)
        IN  /\ Install(r.b)
            /\ last' = Call("sell_stock", r.ret, CreatedIds(r.b), SeenMarket(r, feed), r.log)

\* the poll loop calling execute_order
ExecuteOrder ==
    \E feed \in Feeds :
        LET r == execute_pass(Broker, feed)
        IN  /\ Install(r.b)
            /\ last' = Call("execute_order", RetBool(FALSE), <<>>,
                            get_market_status(feed),
                            IF r.raised THEN "Error occurred while executing orders"
                            ELSE "")

CancelOrder ==
    \E order_id \in 1..MaxOrders :
        LET r == cancel_order(Broker, order_id)
        IN  /\ Install(r.b)
            /\ last' = Call("cancel_order", r.ret, <<>>, "", r.log)

Next ==
    \/ BuyStock
    \/ SellStock
    \/ ExecuteOrder
    \/ CancelOrder

Spec == Init /\ [][Next]_vars

\* the account used through the generic place_order; the exploration follows
\* it for one order fewer than MaxOrders
PlaceOrder ==
    /\ next_id < MaxOrders
    /\ \E feed \in Feeds, symbol \in Symbols, quantity \in Quantities,
          order_type \in OrderTypes, price \in Quotes,
          stop_loss \in OptPrices, limit \in OptPrices :
           LET r == place_order(Broker, feed, symbol, quantity, order_type, price,
                                stop_loss, limit)
           IN  /\ r.b.next_id <= MaxOrders
               /\ Install(r.b)
               /\ last' = Call("place_order", r.ret, CreatedIds(r.b), SeenMarket(r, feed), r.log)

NextPlaceOrder ==
    \/ PlaceOrder
    \/ ExecuteOrder
    \/ CancelOrder

SpecPlaceOrder == Init /\ [][NextPlaceOrder]_vars

\* ---- the account under restricted collaborators --------------------------

\* the same calls with the feed's answers drawn from feeds and the stop_loss
\* argument from stops
BuyStockOn(feeds, stops) ==
    \E feed \in feeds, symbol \in Symbols, quantity \in Quantities,
       stop_loss \in stops, limit \in OptPrices :
        LET r == buy_stock(Broker, feed, symbol, quantity, stop_loss, limit)
        IN  /\ Install(r.b)
            /\ last' = Call("buy_stock", r.ret, CreatedIds(r.b), SeenMarket(r, feed), r.log)

SellStockOn(feeds, stops) ==
    \E feed \in feeds, symbol \in Symbols, quantity \in Quantities,
       stop_loss \in stops, limit \in OptPrices :
        LET r == sell_stock(Broker, feed, symbol, quantity, stop_loss, limit)
        IN  /\ Install(r.b)
            /\ last' = Call("sell_stock", r.ret, CreatedIds(r.b), SeenMarket(r, feed), r.log)

ExecuteOrderOn(feeds) ==
    \E feed \in feeds :
        LET r == execute_pass(Broker, feed)
        IN  /\ Install(r.b)
            /\ last' = Call("execute_order", RetBool(FALSE), <<>>,
                            get_market_status(feed),
                            IF r.raised THEN "Error occurred while executing orders"
                            ELSE "")

\* the feed never fails: every quote is a positive price
PositiveFeeds == {feed \in Feeds : \A s \in Symbols : feed.quote[s] > 0}

BuyStockPositive == BuyStockOn(PositiveFeeds, OptPrices)

SellStockPositive == SellStockOn(PositiveFeeds, OptPrices)

ExecuteOrderPositive == ExecuteOrderOn(PositiveFeeds)

NextPositiveQuotes ==
    \/ BuyStockPositive
    \/ SellStockPositive
    \/ ExecuteOrderPositive
    \/ CancelOrder

SpecPositiveQuotes == Init /\ [][NextPositiveQuotes]_vars

\* every symbol quoted at the same price in every call; no stop-loss given
FixedQuotes == [s \in Symbols |-> 1]

FixedFeeds == {feed \in Feeds : feed.quote = FixedQuotes}

BuyStockFixed == BuyStockOn(FixedFeeds, {None})

SellStockFixed == SellStockOn(FixedFeeds, {None})

ExecuteOrderFixed == ExecuteOrderOn(FixedFeeds)

NextFixedQuote ==
    \/ BuyStockFixed
    \/ SellStockFixed
    \/ ExecuteOrderFixed
    \/ CancelOrder

SpecFixedQuote == Init /\ [][NextFixedQuote]_vars

\* callers passing any integer as quantity: the int argument is not checked.
\* The exploration follows the account for one order fewer than MaxOrders
\* and while the balance is not below -MaxBalance.
AnyQuantities == (0 - 1)..MaxQty

BuyStockAnyQuantity ==
    /\ next_id < MaxOrders
    /\ \E feed \in PositiveFeeds, symbol \in Symbols, quantity \in AnyQuantities,
          limit \in OptPrices :
           LET r == buy_stock(Broker, feed, symbol, quantity, None, limit)
           IN  /\ Install(r.b)
               /\ r.b.balance >= 0 - MaxBalance
               /\ last' = Call("buy_stock", r.ret, CreatedIds(r.b), SeenMarket(r, feed), r.log)

SellStockAnyQuantity ==
    /\ next_id < MaxOrders
    /\ \E feed \in PositiveFeeds, symbol \in Symbols, quantity \in AnyQuantities,
          limit \in OptPrices :
           LET r == sell_stock(Broker, feed, symbol, quantity, None, limit)
           IN  /\ Install(r.b)
               /\ r.b.balance >= 0 - MaxBalance
               /\ last' = Call("sell_stock", r.ret, CreatedIds(r.b), SeenMarket(r, feed), r.log)

ExecuteOrderAnyQuantity ==
    /\ ExecuteOrderOn(PositiveFeeds)
    /\ balance' >= 0 - MaxBalance

NextAnyQuantity ==
    \/ BuyStockAnyQuantity
    \/ SellStockAnyQuantity
    \/ ExecuteOrderAnyQuantity
    \/ CancelOrder

SpecAnyQuantity == Init /\ [][NextAnyQuantity]_vars

\* ---- cancel_order called from another thread during execute_order --------
\* The class holds no lock.  The pass is followed iteration by iteration;
\* between two iterations another thread may run cancel_order.  While a pass
\* is in progress, last holds its position: the feed it reads, the rest of
\* its snapshot, the ids cancelled since it began and the ids of the orders
\* whose settlement it has applied.

\* One iteration of the loop when the open set may have changed since the
\* snapshot was taken.  For an order no longer in self.orders a triggered
\* branch assigns its effects and then self.orders.remove(order) raises
\* ValueError; an untriggered one falls to the else of "if order in
\* self.orders" and is appended to executed_orders.
StepOn(b, feed, order) ==
    IF InList(b.orders, order)
    THEN LET r == Evaluate(b, feed, order)
         IN  IF r.raised THEN r
             ELSE [b |-> Settle(r.b, order), raised |-> FALSE]
    ELSE IF Triggered(order, get_stock_price(feed, order.symbol))
    THEN LET r == Evaluate([b EXCEPT !.orders = Append(@, order)], feed, order)
         IN  [b |-> [r.b EXCEPT !.orders = b.orders], raised |-> TRUE]
    ELSE [b |-> Settle(b, order), raised |-> FALSE]

Running(feed, snapshot, cancelled, applied) ==
    [op |-> "running", feed |-> feed, snapshot |-> snapshot,
     cancelled |-> cancelled, applied |-> applied]

Finished(running, raised) ==
    [op |-> "finished", cancelled |-> running.cancelled,
     applied |-> running.applied, raised |-> raised]

PassRunning == last.op = "running"

SubmitBetweenPasses ==
    /\ ~PassRunning
    /\ \/ BuyStockOn(PositiveFeeds, {None})
       \/ SellStockOn(PositiveFeeds, {None})

\* execute_order passes the market check and takes self.orders.copy()
PassBegin ==
    /\ ~PassRunning
    /\ \E feed \in PositiveFeeds :
           /\ get_market_status(feed) = "Open"
           /\ last' = Running(feed, orders, {}, {})
    /\ UNCHANGED <<balance, holdings, orders, executed_orders, next_id,
                   INITIAL_BALANCE, limiter, clock>>

\* one iteration; an exception ends the pass in its except clause
PassIterate ==
    /\ PassRunning
    /\ last.snapshot # <<>>
    /\ LET order == Head(last.snapshot)
           r == StepOn(Broker, last.feed, order)
           changed == r.b.balance # balance \/ r.b.holdings # holdings
           applied == IF changed THEN last.applied \cup {order.id}
                      ELSE last.applied
           running == Running(last.feed, Tail(last.snapshot), last.cancelled,
                              applied)
       IN  /\ Install(r.b)
           /\ last' = IF r.raised THEN Finished(running, TRUE) ELSE running

PassEnd ==
    /\ PassRunning
    /\ last.snapshot = <<>>
    /\ last' = Finished(last, FALSE)
    /\ UNCHANGED <<balance, holdings, orders, executed_orders, next_id,
                   INITIAL_BALANCE, limiter, clock>>

\* cancel_order on another thread, between two iterations of the pass
CancelDuringPass ==
    /\ PassRunning
    /\ \E order_id \in 1..MaxOrders :
           LET r == cancel_order(Broker, order_id)
           IN  /\ Install(r.b)
               /\ last' = [last EXCEPT !.cancelled =
                               IF r.ok THEN @ \cup {order_id} ELSE @]

NextConcurrent ==
    \/ SubmitBetweenPasses
    \/ PassBegin
    \/ PassIterate
    \/ PassEnd
    \/ CancelDuringPass

SpecConcurrent == Init /\ [][NextConcurrent]_vars

\* ---- get_account_summary -------------------------------------------------
\* sum(self.get_stock_price(symbol) * quantity for symbol, quantity in
\* portfolio_holdings.items()); get_stock_price returns 0.0 for a quote that
\* failed
RECURSIVE HoldingsValue(_, _)
HoldingsValue(h, feed) ==
    IF DOMAIN h = {} THEN 0
    ELSE LET symbol == CHOOSE x \in DOMAIN h : TRUE
             rest == [x \in DOMAIN h \ {symbol} |-> h[x]]
         IN  get_stock_price(feed, symbol) * h[symbol] + HoldingsValue(rest, feed)

\* a float quotient, kept exact as numerator and denominator
Quotient(num, den) == [num |-> num, den |-> den]

\* (portfolio_value - self.INITIAL_BALANCE) / self.INITIAL_BALANCE * 100
PortfolioReturns(b, feed, initial) ==
    Quotient((HoldingsValue(b.holdings, feed) + b.balance - initial) * 100,
             initial)

\* get_account_summary(): the division raises ZeroDivisionError for an
\* account opened with balance 0, and nothing catches it
get_account_summary(b, feed, initial) ==
    IF initial = 0
    THEN [b |-> b, raised |-> TRUE, summary |-> None]
    ELSE [b |-> b, raised |-> FALSE,
          summary |-> [balance |-> b.balance, holdings |-> b.holdings,
                       portfolio_returns |-> PortfolioReturns(b, feed, initial)]]

\* PaperTradingBroker(balance, totp) for any opening balance
InitAnyBalance ==
    /\ INITIAL_BALANCE \in 0..StartBalance
    /\ balance = INITIAL_BALANCE
    /\ holdings = EmptyHoldings
    /\ orders = <<>>
    /\ executed_orders = <<>>
    /\ next_id = 1
    /\ last = NoCall
    /\ limiter = RateLimiter(1, 1, WAIT)
    /\ clock = Clock(0, <<>>, "none")

GetAccountSummary ==
    \E feed \in Feeds :
        LET r == get_account_summary(Broker, feed, INITIAL_BALANCE)
        IN  /\ Install(r.b)
            /\ last' = [op |-> "get_account_summary", feed |-> feed,
                        raised |-> r.raised, summary |-> r.summary]

SubmitBeforeSummary ==
    /\ next_id < MaxOrders
    /\ \/ BuyStockOn(Feeds, {None})
       \/ SellStockOn(Feeds, {None})

NextSummary ==
    \/ SubmitBeforeSummary
    \/ ExecuteOrder
    \/ GetAccountSummary

SpecAnyBalance == InitAnyBalance /\ [][NextSummary]_vars

\* ---- passes that keep being invoked ---------------------------------------
\* A pass never reads self.balance, it only adds to it or subtracts from it,
\* so once the balance has left the modelled range the passes that follow
\* are the same whatever its exact value.  ManyBalance stands for every
\* balance above MaxBalance; submissions and cancellations, which do read or
\* report the balance, are followed only while the balance is exact.
ManyBalance == MaxBalance + 1

BalanceExact == balance <= MaxBalance

SubmitExact ==
    /\ BalanceExact
    /\ \/ BuyStockFixed
       \/ SellStockFixed

CancelExact ==
    /\ BalanceExact
    /\ CancelOrder

\* execute_order() with the market open
PassOpen ==
    \E feed \in FixedFeeds :
        /\ get_market_status(feed) = "Open"
        /\ LET r == execute_pass(Broker, feed)
           IN  /\ balance' = IF BalanceExact /\ r.b.balance <= MaxBalance
                             THEN r.b.balance ELSE ManyBalance
               /\ holdings' = r.b.holdings
               /\ orders' = r.b.orders
               /\ executed_orders' = r.b.executed_orders
               /\ next_id' = r.b.next_id
               /\ UNCHANGED <<INITIAL_BALANCE, limiter, clock>>
               /\ last' = Call("execute_order", RetBool(FALSE), <<>>, "Open",
                               IF r.raised
                               THEN "Error occurred while executing orders"
                               ELSE "")

NextFair ==
    \/ SubmitExact
    \/ CancelExact
    \/ PassOpen

\* market-open passes keep being invoked
SpecFair == Init /\ [][NextFair]_vars /\ WF_vars(PassOpen)

\* ---- entries into a RateLimiter --------------------------------------------
\* __enter__ runs under self.lock from its first statement to its last, the
\* sleep included, so the entries of any number of threads happen one after
\* another; each is one step.

InitRateLimiter ==
    /\ balance = StartBalance
    /\ holdings = EmptyHoldings
    /\ orders = <<>>
    /\ executed_orders = <<>>
    /\ next_id = 1
    /\ last = NoCall
    /\ INITIAL_BALANCE = StartBalance
    /\ \E max_calls \in 1..MaxCalls, period \in 1..MaxPeriod,
          strategy \in Strategies :
           limiter = RateLimiter(max_calls, period, strategy)
    /\ clock = Clock(0, <<>>, "none")

\* a second passes
Tick ==
    /\ clock.now < MaxTime
    /\ clock' = [clock EXCEPT !.now = @ + 1]
    /\ UNCHANGED <<balance, holdings, orders, executed_orders, next_id, last,
                   INITIAL_BALANCE, limiter>>

\* some thread runs "with limiter:"
Enter ==
    /\ Len(clock.admitted) < MaxEntries
    /\ LET r == enter(limiter, clock.now)
           returned == clock.now + r.slept
       IN  /\ returned <= MaxTime
           /\ limiter' = r.rl
           /\ clock' = Clock(returned,
                             IF r.outcome = "admitted"
                             THEN Append(clock.admitted, returned)
                             ELSE clock.admitted,
                             r.outcome)
    /\ UNCHANGED <<balance, holdings, orders, executed_orders, next_id, last,
                   INITIAL_BALANCE>>

NextRateLimiter ==
    \/ Tick
    \/ Enter

SpecRateLimiter == InitRateLimiter /\ [][NextRateLimiter]_vars

\* ==== properties =========================================================

\* the inputs of a submission
Submissions == [feed : Feeds, symbol : Symbols, quantity : Quantities,
                stop_loss : OptPrices, limit : OptPrices]

Buy(a) == buy_stock(Broker, a.feed, a.symbol, a.quantity, a.stop_loss, a.limit)

Sell(a) == sell_stock(Broker, a.feed, a.symbol, a.quantity, a.stop_loss, a.limit)

\* the quote the oracle gives for the submission's symbol
QuoteOf(a) == a.feed.quote[a.symbol]

\* quantity held, 0 for a symbol without entry
Held(h, symbol) == IF symbol \in DOMAIN h THEN h[symbol] ELSE 0

Ids(os) == {os[i].id : i \in 1..Len(os)}

\* the order with this id among the open and the settled orders of broker b
OrderById(b, id) ==
    CHOOSE o \in {b.orders[i] : i \in 1..Len(b.orders)}
                 \cup {b.executed_orders[i] : i \in 1..Len(b.executed_orders)} :
        o.id = id

LastOrder(os) == os[Len(os)]

\* C1: in every reachable state, a successful buy_stock has debited the balance,
\* when it reaches its call of execute_order, by quantity * limit if a limit
\* below the quote was given and by quantity * quote otherwise, and the parent
\* order it appended is a limit_buy priced at the limit in the first case and
\* a buy priced at the quote in the second.
C1_BuyDebitsCostAtSubmission ==
    \A a \in Submissions :
        LET r == Buy(a)
            qualifies == a.limit # None /\ a.limit < QuoteOf(a)
            unit == IF qualifies THEN a.limit ELSE QuoteOf(a)
            parent == LastOrder(r.mid.orders)
        IN  r.ok =>
                /\ r.mid.balance = balance - a.quantity * unit
                /\ r.mid.orders = Append(orders, parent)
                /\ r.mid.holdings = holdings
                /\ parent.id = r.ret.ids[1]
                /\ parent.symbol = a.symbol
                /\ parent.quantity = a.quantity
                /\ parent.price = unit
                /\ parent.type = IF qualifies THEN "limit_buy" ELSE "buy"

\* C1 witness: the first call was a buy with a qualifying limit; its parent
\* is open at the limit price and the balance is down by quantity * limit.
C1_Witness ==
    /\ last.op = "buy_stock"
    /\ last.ret.truth
    /\ Len(orders) = 1
    /\ orders[1].type = "limit_buy"
    /\ orders[1].quantity = 2
    /\ executed_orders = <<>>
    /\ balance = StartBalance - 2 * orders[1].price

\* C2: in every reachable state, a successful sell_stock has taken quantity off
\* holdings[symbol] when it reaches its call of execute_order, the result is
\* not negative, the balance is untouched at that point, and the parent order
\* is a limit_sell at the limit when a limit above the quote was given and a
\* sell at the quote otherwise.
C2_SellReservesSharesAtSubmission ==
    \A a \in Submissions :
        LET r == Sell(a)
            qualifies == a.limit # None /\ a.limit > QuoteOf(a)
            parent == LastOrder(r.mid.orders)
        IN  r.ok =>
                /\ a.symbol \in DOMAIN holdings
                /\ r.mid.holdings = SetHolding(holdings, a.symbol,
                                               holdings[a.symbol] - a.quantity)
                /\ r.mid.holdings[a.symbol] >= 0
                /\ r.mid.balance = balance
                /\ r.mid.orders = Append(orders, parent)
                /\ parent.symbol = a.symbol
                /\ parent.quantity = a.quantity
                /\ parent.price = (IF qualifies THEN a.limit ELSE QuoteOf(a))
                /\ parent.type = IF qualifies THEN "limit_sell" ELSE "sell"

\* C2 witness: a sell of part of the position went through with the market
\* closed: the order is open and the shares are already off holdings.
C2_Witness ==
    /\ last.op = "sell_stock"
    /\ last.ret.truth
    /\ last.market = "Closed"
    /\ Len(last.created) = 1
    /\ \E i \in 1..Len(orders) :
           /\ orders[i].id = last.created[1]
           /\ orders[i].type \in {"sell", "limit_sell"}
           /\ orders[i].symbol \in DOMAIN holdings
           /\ holdings[orders[i].symbol] = 1

\* C3: in every reachable state, a buy_stock whose cost exceeds the balance
\* returns the empty list and leaves the balance, the holdings, the open
\* orders and the settled orders as they were; no order is created.
C3_BuyInsufficientBalanceNoEffect ==
    \A a \in Submissions :
        LET r == Buy(a)
            qualifies == a.limit # None /\ a.limit < QuoteOf(a)
            cost == a.quantity * (IF qualifies THEN a.limit ELSE QuoteOf(a))
        IN  cost > balance =>
                /\ r.ret = RetList(<<>>)
                /\ r.b = Broker

\* C3 witness: a buy was refused for its cost, with cash left on the account
\* and other orders open.
C3_Witness ==
    /\ last.op = "buy_stock"
    /\ last.log = "Insufficient balance"
    /\ last.ret = RetList(<<>>)
    /\ last.created = <<>>
    /\ balance > 0
    /\ orders # <<>>

\* C4: in every reachable state, a sell_stock of a symbol without holdings
\* entry, or of more than is held, returns False and leaves the balance, the
\* holdings, the open orders and the settled orders as they were.
C4_SellInsufficientHoldingsNoEffect ==
    \A a \in Submissions :
        LET r == Sell(a)
        IN  (a.symbol \notin DOMAIN holdings \/ a.quantity > holdings[a.symbol]) =>
                /\ r.ret = RetBool(FALSE)
                /\ r.b = Broker

\* C4 witness: a sell was refused for its quantity in a state where the
\* symbol is held.
C4_Witness ==
    /\ last.op = "sell_stock"
    /\ last.log = "Insufficient holdings"
    /\ last.ret = RetBool(FALSE)
    /\ \E s \in DOMAIN holdings : holdings[s] = 1

\* C5: in every reachable state, buy_stock and sell_stock called while the
\* oracle answers a price that is not strictly positive return their failure
\* value and change nothing.
C5_InvalidQuoteNoEffect ==
    \A a \in Submissions :
        LET rb == Buy(a)
            rs == Sell(a)
        IN  QuoteOf(a) <= 0 =>
                /\ rb.ret = RetList(<<>>)
                /\ rb.b = Broker
                /\ rs.ret = RetBool(FALSE)
                /\ rs.b = Broker

\* C5 witness: a sell was refused for its quote in a state where a position
\* is held and an order is open.
C5_Witness ==
    /\ last.op = "sell_stock"
    /\ last.log = "Invalid price"
    /\ last.ret = RetBool(FALSE)
    /\ \E s \in DOMAIN holdings : holdings[s] >= 1
    /\ orders # <<>>

\* ids of the orders that exist in b and did not exist before the call
CreatedBy(r) ==
    (Ids(r.b.orders) \cup Ids(r.b.executed_orders))
        \ (Ids(orders) \cup Ids(executed_orders))

\* the call returned the list of the ids it created, parent first
ReturnsCreatedIds(r, a) ==
    /\ r.ret.type = "list"
    /\ Len(r.ret.ids) = (IF a.stop_loss # None THEN 2 ELSE 1)
    /\ r.ret.ids[1] = LastOrder(r.mid.orders).id
    /\ \A i \in 1..Len(r.ret.ids) : r.ret.ids[i] \in CreatedBy(r)
    /\ \A i, j \in 1..Len(r.ret.ids) : i # j => r.ret.ids[i] # r.ret.ids[j]

\* C6 as claimed: a successful buy_stock and a successful sell_stock both
\* return the list of the ids of the orders they created, one without and two
\* with a stop-loss, the parent's first.
C6_BothReturnCreatedIds ==
    \A a \in Submissions :
        LET rb == Buy(a)
            rs == Sell(a)
        IN  /\ rb.ok => ReturnsCreatedIds(rb, a)
            /\ rs.ok => ReturnsCreatedIds(rs, a)

\* C6 amended: a successful buy_stock returns the list of the ids of the
\* orders it created, one without and two with a stop-loss, the parent's
\* first; a successful sell_stock creates its one or two orders as well but
\* returns the boolean True and no id.
C6_BuyReturnsIdsSellReturnsTrue ==
    \A a \in Submissions :
        LET rb == Buy(a)
            rs == Sell(a)
        IN  /\ rb.ok => ReturnsCreatedIds(rb, a)
            /\ rs.ok =>
                   /\ rs.ret = RetBool(TRUE)
                   /\ Cardinality(CreatedBy(rs)) = (IF a.stop_loss # None THEN 2 ELSE 1)

\* C6 witness: a sell with a stop-loss went through: two orders were created
\* and the caller got True.
C6_Witness ==
    /\ last.op = "sell_stock"
    /\ last.ret = RetBool(TRUE)
    /\ Len(last.created) = 2
    /\ \A i \in 1..2 : last.created[i] \in Ids(orders) \cup Ids(executed_orders)

\* the last open order of r.b is the stop-loss child of submission a, and but
\* for it the call ended as the same call without stop-loss (r0)
AddsOnlyChild(r, r0, a, type) ==
    LET child == LastOrder(r.b.orders)
    IN  /\ r.b.orders # <<>>
        /\ child = NewOrder(child.id, a.symbol, a.quantity, a.stop_loss, type)
        /\ child.id \notin Ids(orders) \cup Ids(executed_orders) \cup Ids(r.mid.orders)
        /\ r.b.orders = Append(r0.b.orders, child)
        /\ r.b.executed_orders = r0.b.executed_orders
        /\ r.b.balance = r0.b.balance
        /\ r.b.holdings = r0.b.holdings

\* C7: in every reachable state, a successful submission with a stop-loss
\* leaves one more order than the same submission without it: an open order
\* of its own id at the stop price, of kind sl_sell after a buy and sl_buy
\* after a sell; the balance, the holdings and the settled orders are what the
\* submission without stop-loss leaves.
C7_StopLossChildCreated ==
    \A a \in Submissions :
        a.stop_loss # None =>
            LET a0 == [a EXCEPT !.stop_loss = None]
                rb == Buy(a)
                rs == Sell(a)
                rb0 == Buy(a0)
                rs0 == Sell(a0)
            IN  /\ rb.ok => AddsOnlyChild(rb, rb0, a, "sl_sell")
                /\ rs.ok => AddsOnlyChild(rs, rs0, a, "sl_buy")

\* C7 witness: a buy with a stop-loss went through with the market open: the
\* parent is settled, the sl_sell child is open, the shares are held.
C7_Witness ==
    /\ last.op = "buy_stock"
    /\ Len(last.created) = 2
    /\ last.market = "Open"
    /\ orders # <<>>
    /\ LastOrder(orders).id = last.created[2]
    /\ LastOrder(orders).type = "sl_sell"
    /\ last.created[1] \in Ids(executed_orders)
    /\ Held(holdings, LastOrder(orders).symbol) >= LastOrder(orders).quantity

\* the stop-loss trigger of execute_order holds at the submission's quote
ChildWouldTrigger(a, type) ==
    IF type = "sl_sell" THEN QuoteOf(a) <= a.stop_loss ELSE QuoteOf(a) >= a.stop_loss

\* C8 as claimed: a successful submission appends the parent and the stop-loss
\* child and then runs the pass, so with the market open a child whose trigger
\* holds at the current quote is filled in that pass.
C8_ChildEvaluatedInSubmissionPass ==
    \A a \in Submissions :
        LET rb == Buy(a)
            rs == Sell(a)
        IN  a.stop_loss # None =>
                /\ (rb.ok /\ a.feed.market = "Open" /\ ChildWouldTrigger(a, "sl_sell"))
                       => rb.ret.ids[2] \in Ids(rb.b.executed_orders)
                /\ (rs.ok /\ a.feed.market = "Open" /\ ChildWouldTrigger(a, "sl_buy"))
                       => LastOrder(rs.mid.orders).id + 1 \in Ids(rs.b.executed_orders)

\* the pass of the call ran on the open set with the parent but without the
\* child; the child is the last open order when the call returns
ChildAfterPass(r, type) ==
    LET parent == LastOrder(r.mid.orders)
        child == LastOrder(r.b.orders)
    IN  /\ r.mid.orders = Append(orders, parent)
        /\ parent.type \notin {"sl_sell", "sl_buy"}
        /\ r.b.orders # <<>>
        /\ child.type = type
        /\ child.status = "open"
        /\ child.id \notin Ids(r.mid.orders)
        /\ child.id \notin Ids(r.b.executed_orders)
        /\ get_order_status(r.b, child.id) = "Open"

\* C8 amended: a successful submission appends the parent, runs the pass and
\* only then appends the stop-loss child: the child is not evaluated in that
\* pass and is open when the call returns, also when the market is open and
\* its trigger holds at the current quote.
C8_ChildAppendedAfterPass ==
    \A a \in Submissions :
        LET rb == Buy(a)
            rs == Sell(a)
        IN  a.stop_loss # None =>
                /\ rb.ok => ChildAfterPass(rb, "sl_sell")
                /\ rs.ok => ChildAfterPass(rs, "sl_buy")

\* C8 witness: a plain sell with a stop-loss went through with the market
\* open; the parent is settled at the quote and the sl_buy child, whose stop
\* price is not above that quote, is still open.
C8_Witness ==
    /\ last.op = "sell_stock"
    /\ Len(last.created) = 2
    /\ last.market = "Open"
    /\ orders # <<>>
    /\ LastOrder(orders).id = last.created[2]
    /\ LastOrder(orders).type = "sl_buy"
    /\ last.created[1] \in Ids(executed_orders)
    /\ OrderById(Broker, last.created[1]).type = "sell"
    /\ OrderById(Broker, last.created[1]).price >= LastOrder(orders).price

\* what C9 says of a plain buy that went through
PlainBuySettled(r, a) ==
    LET id == r.ret.ids[1]
    IN  IF a.feed.market = "Open"
        THEN /\ Held(r.b.holdings, a.symbol) = Held(holdings, a.symbol) + a.quantity
             /\ r.b.balance = balance - a.quantity * QuoteOf(a)
             /\ get_order_status(r.b, id) = "Filled"
             /\ OrderById(r.b, id).status = "filled"
        ELSE /\ get_order_status(r.b, id) = "Open"
             /\ r.b.balance = balance - a.quantity * QuoteOf(a)
             /\ r.b.holdings = holdings
             /\ r.b.executed_orders = executed_orders

IsPlainBuy(a) == ~(a.limit # None /\ a.limit < QuoteOf(a))

\* C9 as claimed: in every reachable state, a successful plain buy made with
\* the market open has, when it returns, raised holdings[symbol] by quantity,
\* lowered the balance by quantity * quote and settled the parent (Filled);
\* with the market closed the parent is open and only the cash is debited.
C9_PlainBuySettledAtReturn ==
    \A a \in Submissions :
        LET r == Buy(a)
        IN  (r.ok /\ IsPlainBuy(a)) => PlainBuySettled(r, a)

\* C9 amended: the same, for the market-open case provided no other order is
\* open when the call is made (the pass of the call settles every open order
\* it can, and each of them moves cash or shares too).
C9_PlainBuySettledWhenNoOtherOpen ==
    \A a \in Submissions :
        LET r == Buy(a)
        IN  (r.ok /\ IsPlainBuy(a) /\ (a.feed.market = "Open" => orders = <<>>))
                => PlainBuySettled(r, a)

\* C9 witness: a plain buy, the only order the account ever had, made with
\* the market open: it is settled, the shares are held, the cash is debited.
C9_Witness ==
    /\ last.op = "buy_stock"
    /\ last.market = "Open"
    /\ last.created = <<1>>
    /\ orders = <<>>
    /\ Len(executed_orders) = 1
    /\ executed_orders[1].type = "buy"
    /\ executed_orders[1].status = "filled"
    /\ holdings = SetHolding(EmptyHoldings, executed_orders[1].symbol,
                             executed_orders[1].quantity)
    /\ balance = StartBalance - executed_orders[1].quantity * executed_orders[1].price

IsPlainSell(a) == ~(a.limit # None /\ a.limit > QuoteOf(a))

SellsWholePosition(a) ==
    a.symbol \in DOMAIN holdings /\ a.quantity = holdings[a.symbol]

\* what C10 says of the account after the sale of a whole position
PositionClosed(r, a) ==
    /\ a.symbol \notin DOMAIN r.b.holdings
    /\ r.b.balance = balance + a.quantity * QuoteOf(a)

\* C10 as claimed: in every reachable state, a successful plain sell of the
\* whole position made with the market open leaves no holdings entry for the
\* symbol and the balance up by quantity * quote, whatever the stop_loss.
C10_SellAllClosesPosition ==
    \A a \in Submissions :
        LET r == Sell(a)
        IN  (r.ok /\ a.feed.market = "Open" /\ IsPlainSell(a) /\ SellsWholePosition(a))
                => PositionClosed(r, a)

\* C10 amended: the same, provided no other order is open when the call is
\* made.
C10_SellAllClosesPositionWhenNoOtherOpen ==
    \A a \in Submissions :
        LET r == Sell(a)
        IN  (orders = <<>> /\ a.feed.market = "Open" /\ IsPlainSell(a)
                /\ SellsWholePosition(a) /\ r.ok)
                => PositionClosed(r, a)

\* C10 witness: the account bought once and then sold the whole position with
\* a stop price not above the quote, market open: no holdings entry is left,
\* the sale is settled and the sl_buy child is the only open order.
C10_Witness ==
    /\ last.op = "sell_stock"
    /\ last.market = "Open"
    /\ last.created = <<2, 3>>
    /\ Len(executed_orders) = 2
    /\ executed_orders[1].type = "buy"
    /\ executed_orders[2].type = "sell"
    /\ executed_orders[2].quantity = executed_orders[1].quantity
    /\ Len(orders) = 1
    /\ orders[1].type = "sl_buy"
    /\ orders[1].price <= executed_orders[2].price
    /\ holdings = EmptyHoldings
    /\ balance = StartBalance
                 - executed_orders[1].quantity * executed_orders[1].price
                 + executed_orders[2].quantity * executed_orders[2].price

\* C11: in every reachable state every order of the open set has status open,
\* every order of the settled history has status filled, and no order id is
\* in both the open set and the settled history.
C11_OpenAndSettledDisjoint ==
    /\ \A i \in 1..Len(orders) : orders[i].status = "open"
    /\ \A i \in 1..Len(executed_orders) : executed_orders[i].status = "filled"
    /\ Ids(orders) \cap Ids(executed_orders) = {}

\* C11 witness: a pass with the market open has left one order open and two
\* orders in the settled history.
C11_Witness ==
    /\ last.op = "execute_order"
    /\ last.market = "Open"
    /\ Len(orders) = 1
    /\ orders[1].status = "open"
    /\ Len(executed_orders) = 2
    /\ \A i \in 1..2 : executed_orders[i].status = "filled"

\* s is an initial segment of t
IsPrefix(s, t) == Len(s) <= Len(t) /\ \A i \in 1..Len(s) : s[i] = t[i]

\* C12: every step of the program (submission, pass, cancellation) keeps the
\* settled history as an initial segment of the new settled history, and
\* every order that was settled before the step is not in the open set after
\* it and has order status Filled after it.
C12_FillIsTerminal ==
    [][/\ IsPrefix(executed_orders, executed_orders')
       /\ \A id \in Ids(executed_orders) :
              /\ id \notin Ids(orders')
              /\ get_order_status([orders |-> orders',
                                   executed_orders |-> executed_orders'], id)
                     = "Filled"]_vars

\* C12 witness: order 1 was settled, two more orders were placed and one of
\* them was cancelled afterwards; order 1 is still the first of the history.
C12_Witness ==
    /\ last.op = "cancel_order"
    /\ last.ret.truth
    /\ next_id = 4
    /\ Len(executed_orders) >= 1
    /\ executed_orders[1].id = 1
    /\ get_order_status(Broker, 1) = "Filled"

\* what get_market_status can answer other than "Open"
NotOpenStatuses == {"Closed", "Error occurred while getting market status"}

NotOpenFeeds == [quote : [Symbols -> Quotes], market : NotOpenStatuses]

\* C13: in every reachable state, a pass made while the market status is not
\* Open leaves the open set, the settled history, the balance and the
\* holdings as they were, whatever is open and whatever the quotes are.
C13_ClosedMarketPassNoEffect ==
    \A feed \in NotOpenFeeds :
        LET r == execute_pass(Broker, feed)
        IN  /\ r.b = Broker
            /\ ~r.raised

\* C13 witness: a pass was made with the market closed while a plain buy,
\* which a pass with the market open would fill, was open.
C13_Witness ==
    /\ last.op = "execute_order"
    /\ last.market = "Closed"
    /\ \E i \in 1..Len(orders) : orders[i].type = "buy"
    /\ balance < StartBalance

\* ---- the matching pass, order by order ---------------------------------

\* what the collaborators can answer during a pass made with the market open
OpenFeeds == {feed \in Feeds : get_market_status(feed) = "Open"}

\* the iterations of a pass made on the current account
StepsOf(feed) == PassSteps(Broker, feed, orders)

\* the account a pass made on the current account leaves
AfterPass(feed) == execute_pass(Broker, feed).b

\* the order is in the settled history of b, filled, and not in its open set
Moved(b, order) ==
    /\ order.id \notin Ids(b.orders)
    /\ InList(b.executed_orders, [order EXCEPT !.status = "filled"])

\* the iteration took its order out of the open set and appended it, filled,
\* to the settled history; no other order was touched
StepMoves(st) ==
    /\ st.post.orders = RemoveFirst(st.pre.orders, st.order)
    /\ st.post.executed_orders
           = Append(st.pre.executed_orders, [st.order EXCEPT !.status = "filled"])

\* the iteration changed the symbol's held quantity by delta and no other
\* symbol's
StepHoldings(st, delta) ==
    /\ Held(st.post.holdings, st.order.symbol)
           = Held(st.pre.holdings, st.order.symbol) + delta
    /\ \A s \in (DOMAIN st.pre.holdings \cup DOMAIN st.post.holdings)
                \ {st.order.symbol} :
           Held(st.post.holdings, s) = Held(st.pre.holdings, s)

StepQuote(st, feed) == get_stock_price(feed, st.order.symbol)

\* a buy-side fill: shares credited under an existing key, no cash moved
BuyFillStep(st) ==
    /\ ~st.raised
    /\ StepMoves(st)
    /\ StepHoldings(st, st.order.quantity)
    /\ st.order.symbol \in DOMAIN st.post.holdings
    /\ st.post.balance = st.pre.balance

\* a sell-side fill: cash credited at the order's price, held quantity as
\* the reservation left it
SellFillStep(st) ==
    /\ ~st.raised
    /\ StepMoves(st)
    /\ StepHoldings(st, 0)
    /\ st.post.balance = st.pre.balance + st.order.quantity * st.order.price

\* C14 as claimed: in a pass made with the market open, every open order of
\* kind buy is filled whatever the quote: it is settled when the pass ends,
\* and its fill adds quantity to holdings[symbol] (creating the key), leaves
\* the balance alone and moves the order from the open set to the history.
C14_BuyAlwaysFills ==
    \A feed \in OpenFeeds :
        LET steps == StepsOf(feed)
            after == AfterPass(feed)
        IN  /\ \A i \in 1..Len(orders) :
                   orders[i].type = "buy" => Moved(after, orders[i])
            /\ \A k \in 1..Len(steps) :
                   steps[k].order.type = "buy" => BuyFillStep(steps[k])

\* C14, the failure reached: a pass made with the market open ended in its
\* except clause and a buy that was open before it is still open.
C14_BuyLeftOpen ==
    /\ last.op = "execute_order"
    /\ last.market = "Open"
    /\ last.log = "Error occurred while executing orders"
    /\ \E i \in 1..Len(orders) : orders[i].type = "buy"

\* C15 as claimed: in a pass made with the market open, every open order of
\* kind sell is filled: when the pass ends none of them is open, each is in
\* the settled history, and its fill credits quantity * order.price and does
\* not change the held quantity.
C15_SellAlwaysFills ==
    \A feed \in OpenFeeds :
        LET steps == StepsOf(feed)
            after == AfterPass(feed)
        IN  /\ \A i \in 1..Len(orders) :
                   orders[i].type = "sell" => Moved(after, orders[i])
            /\ \A k \in 1..Len(steps) :
                   steps[k].order.type = "sell" => SellFillStep(steps[k])

\* C15, the failure reached: a pass made with the market open ended in its
\* except clause, the sell at the head of the open set is still open, and
\* the symbol has no holdings entry.
C15_SellLeftOpen ==
    /\ last.op = "execute_order"
    /\ last.market = "Open"
    /\ last.log = "Error occurred while executing orders"
    /\ orders # <<>>
    /\ orders[1].type = "sell"
    /\ orders[1].symbol \notin DOMAIN holdings

\* C16 as claimed: in a pass made with the market open, an open limit_buy at
\* price P is filled if and only if the quote is at most P; its fill only
\* adds quantity to holdings[symbol]; when it is not filled it stays open
\* and its iteration changes nothing.
C16_LimitBuyFillsIffQuoteAtOrBelow ==
    \A feed \in OpenFeeds :
        LET steps == StepsOf(feed)
            after == AfterPass(feed)
        IN  /\ \A i \in 1..Len(orders) :
                   orders[i].type = "limit_buy" =>
                       (Moved(after, orders[i])
                            <=> get_stock_price(feed, orders[i].symbol) <= orders[i].price)
            /\ \A k \in 1..Len(steps) :
                   steps[k].order.type = "limit_buy" =>
                       IF StepQuote(steps[k], feed) <= steps[k].order.price
                       THEN BuyFillStep(steps[k])
                       ELSE steps[k].post = steps[k].pre

\* C16, the failure reached: a pass made with the market open ended in its
\* except clause at an sl_sell whose stop price is not above the limit of
\* the limit_buy behind it: the quote was at or below that limit, and the
\* limit_buy is still open.
C16_LimitBuyLeftOpen ==
    /\ last.op = "execute_order"
    /\ last.market = "Open"
    /\ last.log = "Error occurred while executing orders"
    /\ Len(orders) = 2
    /\ orders[1].type = "sl_sell"
    /\ orders[2].type = "limit_buy"
    /\ orders[1].price <= orders[2].price

\* C17 as claimed: in a pass made with the market open, an open limit_sell at
\* price P is filled if and only if the quote is at least P; its fill credits
\* quantity * P and does not change the held quantity; otherwise the order
\* stays open and its iteration changes nothing.
C17_LimitSellFillsIffQuoteAtOrAbove ==
    \A feed \in OpenFeeds :
        LET steps == StepsOf(feed)
            after == AfterPass(feed)
        IN  /\ \A i \in 1..Len(orders) :
                   orders[i].type = "limit_sell" =>
                       (Moved(after, orders[i])
                            <=> get_stock_price(feed, orders[i].symbol) >= orders[i].price)
            /\ \A k \in 1..Len(steps) :
                   steps[k].order.type = "limit_sell" =>
                       IF StepQuote(steps[k], feed) >= steps[k].order.price
                       THEN SellFillStep(steps[k])
                       ELSE steps[k].post = steps[k].pre

\* C17, the failure reached: a pass made with the market open ended in its
\* except clause, the limit_sell at the head of the open set is still open
\* and the symbol has no holdings entry.
C17_LimitSellLeftOpen ==
    /\ last.op = "execute_order"
    /\ last.market = "Open"
    /\ last.log = "Error occurred while executing orders"
    /\ orders # <<>>
    /\ orders[1].type = "limit_sell"
    /\ orders[1].symbol \notin DOMAIN holdings

\* C18 as claimed: in a pass made with the market open, the iteration of an
\* open sl_sell at stop price S changes the account only if the quote is at
\* most S, and then it is a fill that credits quantity * S, takes quantity
\* off holdings[symbol] (dropping the key at zero) and moves the order to the
\* settled history.
C18_StopLossSellFill ==
    \A feed \in OpenFeeds :
        LET steps == StepsOf(feed)
        IN  \A k \in 1..Len(steps) :
                LET st == steps[k]
                IN  (st.order.type = "sl_sell" /\ st.post # st.pre) =>
                        /\ StepQuote(st, feed) <= st.order.price
                        /\ ~st.raised
                        /\ st.post.balance
                               = st.pre.balance + st.order.quantity * st.order.price
                        /\ StepHoldings(st, 0 - st.order.quantity)
                        /\ (st.order.symbol \in DOMAIN st.post.holdings
                               => st.post.holdings[st.order.symbol] # 0)
                        /\ StepMoves(st)

\* C18, the failure reached: a pass made with the market open ended in its
\* except clause, the sl_sell at the head of the open set is still open and
\* the balance is above its starting value although the account never held
\* a share.
C18_StopLossSellCreditedNotFilled ==
    /\ last.op = "execute_order"
    /\ last.market = "Open"
    /\ last.log = "Error occurred while executing orders"
    /\ orders # <<>>
    /\ orders[1].type = "sl_sell"
    /\ executed_orders = <<>>
    /\ holdings = EmptyHoldings
    /\ balance > StartBalance

\* C19: in every reachable state and for every pass made with the market
\* open, the iteration of an open sl_buy at stop price S changes the account
\* only if the quote is at least S, and then it adds quantity to
\* holdings[symbol], debits quantity * S and moves the order to the settled
\* history; with the quote below S it changes nothing.
C19_StopLossBuyFill ==
    \A feed \in OpenFeeds :
        LET steps == StepsOf(feed)
        IN  \A k \in 1..Len(steps) :
                LET st == steps[k]
                IN  st.order.type = "sl_buy" =>
                        /\ ~st.raised
                        /\ st.post # st.pre =>
                               /\ StepQuote(st, feed) >= st.order.price
                               /\ StepHoldings(st, st.order.quantity)
                               /\ st.order.symbol \in DOMAIN st.post.holdings
                               /\ st.post.balance
                                      = st.pre.balance
                                        - st.order.quantity * st.order.price
                               /\ StepMoves(st)
                        /\ StepQuote(st, feed) < st.order.price
                               => st.post = st.pre

\* C19 witness: the account bought two shares, sold one of them with a
\* stop-loss, and a later pass filled the sl_buy child: it is the last of the
\* history, two shares are held again and the cash is down by the stop price.
C19_Witness ==
    /\ last.op = "execute_order"
    /\ last.market = "Open"
    /\ orders = <<>>
    /\ Len(executed_orders) = 3
    /\ executed_orders[1].type = "buy"
    /\ executed_orders[1].quantity = 2
    /\ executed_orders[2].type = "sell"
    /\ executed_orders[3].type = "sl_buy"
    /\ executed_orders[3].status = "filled"
    /\ holdings = SetHolding(EmptyHoldings, executed_orders[3].symbol, 2)
    /\ balance = StartBalance
                 - 2 * executed_orders[1].price
                 + executed_orders[2].price
                 - executed_orders[3].price

\* C20 as claimed: in a pass made with the market open, every open order
\* whose symbol has no available quote (the feed failed or answered a price
\* that is not positive) is reached by the pass and skipped: its iteration
\* changes nothing and the order is still open when the pass ends.
C20_UnavailableQuoteSkipsOrder ==
    \A feed \in OpenFeeds :
        LET steps == StepsOf(feed)
            after == AfterPass(feed)
        IN  \A i \in 1..Len(orders) :
                get_stock_price(feed, orders[i].symbol) <= 0 =>
                    /\ InList(after.orders, orders[i])
                    /\ \E k \in 1..Len(steps) :
                           /\ steps[k].order = orders[i]
                           /\ steps[k].post = steps[k].pre

\* ---- cancellation -------------------------------------------------------

IsBuySide(order) == order.type \in {"buy", "limit_buy"}

IsSellSide(order) == order.type \in {"sell", "limit_sell"}

IsStopLoss(order) == order.type \in {"sl_sell", "sl_buy"}

\* cancelling the open order of account b succeeds, takes it out of the open
\* set, refunds quantity * order.price and touches nothing else
CancelRefunds(b, order) ==
    LET r == cancel_order(b, order.id)
    IN  /\ r.ret = RetBool(TRUE)
        /\ r.b.orders = RemoveFirst(b.orders, order)
        /\ order.id \notin Ids(r.b.orders)
        /\ r.b.balance = b.balance + order.quantity * order.price
        /\ r.b.holdings = b.holdings
        /\ r.b.executed_orders = b.executed_orders

\* buy_stock with inputs a, then cancel_order of its parent, leaves the
\* balance and the holdings of before the submission
BuyCancelRestores(a) ==
    LET rb == Buy(a)
        parent == LastOrder(rb.mid.orders)
        rc == cancel_order(rb.b, parent.id)
    IN  (rb.ok /\ InList(rb.b.orders, parent)) =>
            /\ rc.ret = RetBool(TRUE)
            /\ rc.b.balance = balance
            /\ rc.b.holdings = holdings

\* C21 as claimed: cancelling an open buy-side order removes it and credits
\* quantity * order.price, so in every reachable state a buy_stock followed
\* by the cancellation of its still-open parent leaves the balance and the
\* holdings as they were before the submission.
C21_BuyThenCancelRestores ==
    /\ \A i \in 1..Len(orders) :
           IsBuySide(orders[i]) => CancelRefunds(Broker, orders[i])
    /\ \A a \in Submissions : BuyCancelRestores(a)

\* C21 amended: the same, the round trip being taken over submissions made
\* with the market closed or while no other order is open (the pass of a
\* submission made with the market open settles the other open orders, which
\* moves cash and shares that the cancellation does not give back).
C21_BuyThenCancelRestoresWhenNoOtherFill ==
    /\ \A i \in 1..Len(orders) :
           IsBuySide(orders[i]) => CancelRefunds(Broker, orders[i])
    /\ \A a \in Submissions :
           (a.feed.market = "Open" => orders = <<>>) => BuyCancelRestores(a)

\* C21 witness: the only order the account ever had, a buy, was cancelled
\* while open: no order is left, nothing is held and the cash is what the
\* account started with.
C21_Witness ==
    /\ last.op = "cancel_order"
    /\ last.ret = RetBool(TRUE)
    /\ next_id = 2
    /\ orders = <<>>
    /\ executed_orders = <<>>
    /\ holdings = EmptyHoldings
    /\ balance = StartBalance

\* cancelling the open sell-side order of account b succeeds, takes it out
\* of the open set, gives its quantity back to holdings[symbol] and touches
\* nothing else; the id is unknown afterwards
CancelRestoresShares(b, order) ==
    LET r == cancel_order(b, order.id)
    IN  /\ r.ret = RetBool(TRUE)
        /\ r.b.orders = RemoveFirst(b.orders, order)
        /\ order.symbol \in DOMAIN r.b.holdings
        /\ r.b.holdings = SetHolding(b.holdings, order.symbol,
                                     Held(b.holdings, order.symbol) + order.quantity)
        /\ r.b.balance = b.balance
        /\ r.b.executed_orders = b.executed_orders
        /\ get_order_status(r.b, order.id) = "Order with this order_id does not exist"

\* C22 as claimed: in every reachable state, cancelling an open sell or
\* limit_sell order succeeds, removes it from the open set and adds its
\* quantity to holdings[symbol]; the order status of its id is then the
\* not-found answer.
C22_SellCancelRestoresShares ==
    \A i \in 1..Len(orders) :
        IsSellSide(orders[i]) => CancelRestoresShares(Broker, orders[i])

\* C22, the failure reached: a cancellation ended in the except clause and
\* returned False; no order is open any more and the account, which bought
\* two shares and saw one sale settled, holds nothing.
C22_SellCancelFailed ==
    /\ last.op = "cancel_order"
    /\ last.log = "Error occurred while canceling order"
    /\ last.ret = RetBool(FALSE)
    /\ orders = <<>>
    /\ Len(executed_orders) = 2
    /\ executed_orders[1].type = "buy"
    /\ executed_orders[1].quantity = 2
    /\ executed_orders[2].type = "sell"
    /\ executed_orders[2].quantity = 1
    /\ holdings = EmptyHoldings

\* C23: in every reachable state, cancelling an open sl_sell or sl_buy order
\* succeeds, removes it from the open set and leaves the balance, the
\* holdings and the settled history as they were.
C23_StopLossCancelNoReversal ==
    \A i \in 1..Len(orders) :
        IsStopLoss(orders[i]) =>
            LET r == cancel_order(Broker, orders[i].id)
            IN  /\ r.ret = RetBool(TRUE)
                /\ r.b.orders = RemoveFirst(orders, orders[i])
                /\ orders[i].id \notin Ids(r.b.orders)
                /\ r.b.balance = balance
                /\ r.b.holdings = holdings
                /\ r.b.executed_orders = executed_orders

\* C23 witness: a buy that took all the cash was placed with a stop-loss and
\* the sl_sell child (id 2, the only order that could follow on an empty
\* balance with nothing held) was cancelled: the parent is open, the cash is
\* still reserved, nothing is held.
C23_Witness ==
    /\ last.op = "cancel_order"
    /\ last.ret = RetBool(TRUE)
    /\ next_id = 3
    /\ Len(orders) = 1
    /\ orders[1].id = 1
    /\ IsBuySide(orders[1])
    /\ executed_orders = <<>>
    /\ holdings = EmptyHoldings
    /\ balance = 0

\* the identifiers a caller may hand to cancel_order
OrderIds == 0..(MaxOrders + 1)

\* C24: in every reachable state, cancel_order with an id that no open order
\* has (never issued, cancelled before, or settled) returns False and leaves
\* the open set, the settled history, the balance and the holdings as they
\* were.
C24_CancelUnknownNoEffect ==
    \A order_id \in OrderIds :
        order_id \notin Ids(orders) =>
            LET r == cancel_order(Broker, order_id)
            IN  /\ r.ret = RetBool(FALSE)
                /\ r.b = Broker

\* C24 witness: a cancellation found no open order with its id while order 1
\* was settled and another order was open; the settled order is still in the
\* history.
C24_Witness ==
    /\ last.op = "cancel_order"
    /\ last.log = "not found"
    /\ last.ret = RetBool(FALSE)
    /\ orders # <<>>
    /\ Len(executed_orders) = 1
    /\ executed_orders[1].id = 1
    /\ executed_orders[1].status = "filled"

\* the inputs of a call of place_order
Placements == [feed : Feeds, symbol : Symbols, quantity : Quantities,
               order_type : OrderTypes, price : Quotes,
               stop_loss : OptPrices, limit : OptPrices]

Place(p) == place_order(Broker, p.feed, p.symbol, p.quantity, p.order_type,
                        p.price, p.stop_loss, p.limit)

\* a call that returned its failure value (empty list / False) left the
\* account as it found it
FailureLeavesAccount(r) == ~r.ret.truth => r.b = Broker

\* C25 as claimed: in every reachable state, a buy_stock, sell_stock,
\* place_order or cancel_order call that returns its failure value (the empty
\* list or False) has changed nothing: the open set, the settled history,
\* the balance and the holdings are what they were before the call.
C25_FailureMeansNoEffect ==
    /\ \A a \in Submissions :
           FailureLeavesAccount(Buy(a)) /\ FailureLeavesAccount(Sell(a))
    /\ \A p \in Placements : FailureLeavesAccount(Place(p))
    /\ \A order_id \in OrderIds : FailureLeavesAccount(cancel_order(Broker, order_id))

\* C25, the failure reached: a cancellation returned False, and the open set
\* is one order shorter than the orders issued and not settled before it:
\* all three orders were issued, two are settled, none is open.
C25_FailedCancelRemovedOrder ==
    /\ last.op = "cancel_order"
    /\ last.ret = RetBool(FALSE)
    /\ last.log = "Error occurred while canceling order"
    /\ next_id = 4
    /\ Len(executed_orders) = 2
    /\ orders = <<>>
    /\ 3 \notin Ids(executed_orders)

\* ---- the holdings and the value of the account ---------------------------

\* C26 as claimed: in every reachable state every key of holdings maps to a
\* quantity above zero; an entry that reaches zero is removed.
C26_HoldingsKeysPositive ==
    \A s \in DOMAIN holdings : holdings[s] > 0

\* C26, the failure reached: a sell_stock made with the market closed has
\* reserved the whole position; the order is open and the symbol's entry is
\* kept with quantity zero.
C26_ZeroEntryKept ==
    /\ last.op = "sell_stock"
    /\ last.ret = RetBool(TRUE)
    /\ last.market = "Closed"
    /\ \E s \in DOMAIN holdings : holdings[s] = 0

\* C27 as claimed: with the feed answering positive quotes only, no held
\* quantity is negative in any reachable state.
C27_HoldingsNeverNegative ==
    \A s \in DOMAIN holdings : holdings[s] >= 0

\* C27, the failure reached: after a pass made with the market open the
\* account is short of a share, every order is settled, and the last order
\* settled is an sl_sell.
C27_NegativeHoldingsReached ==
    /\ last.op = "execute_order"
    /\ last.market = "Open"
    /\ orders = <<>>
    /\ executed_orders # <<>>
    /\ LastOrder(executed_orders).type = "sl_sell"
    /\ \E s \in DOMAIN holdings : holdings[s] < 0

\* sum of f[s] over the symbols in S
RECURSIVE SumOver(_, _)
SumOver(S, f) ==
    IF S = {} THEN 0
    ELSE LET s == CHOOSE x \in S : TRUE
         IN  f[s] + SumOver(S \ {s}, f)

\* value reserved by an open order at the quotes q: the cash of a buy-side
\* order, the shares of a sell-side order at their quote
ReservedBy(order, q) ==
    IF IsBuySide(order) THEN order.quantity * order.price
    ELSE IF IsSellSide(order) THEN order.quantity * q[order.symbol]
    ELSE 0

RECURSIVE ReservedValue(_, _)
ReservedValue(os, q) ==
    IF os = <<>> THEN 0
    ELSE ReservedBy(Head(os), q) + ReservedValue(Tail(os), q)

\* cash + holdings at the quotes q + value reserved by the open orders
TotalValue(q) ==
    balance
    + SumOver(DOMAIN holdings, [s \in DOMAIN holdings |-> holdings[s] * q[s]])
    + ReservedValue(orders, q)

\* C28 as claimed: with every quote held constant and no stop-loss given, in
\* every reachable state the cash, the holdings at their quote and the value
\* reserved by the open orders add up to the starting balance.
C28_ValueConserved ==
    TotalValue(FixedQuotes) = StartBalance

\* C28, the failure reached: the account has sold everything it bought, all
\* at the one quote, a sell order is still open, and the cash alone exceeds
\* the starting balance.
C28_ValueCreated ==
    /\ last.op = "execute_order"
    /\ last.log = "Error occurred while executing orders"
    /\ holdings = EmptyHoldings
    /\ orders # <<>>
    /\ \A i \in 1..Len(orders) : orders[i].type = "sell"
    /\ balance > StartBalance

\* ---- order status and the generic submission -----------------------------

NotFound == "Order with this order_id does not exist"

\* C29: in every reachable state and for every id, get_order_status answers
\* Open exactly when an open order has the id, Filled exactly when a settled
\* order has it and no open one, and the not-found answer exactly when no
\* order has it (never issued, or cancelled).
C29_OrderStatusMatchesLedger ==
    \A order_id \in OrderIds :
        LET status == get_order_status(Broker, order_id)
            open == order_id \in Ids(orders)
            settled == order_id \in Ids(executed_orders)
        IN  /\ status \in {"Open", "Filled", NotFound}
            /\ status = "Open" <=> open
            /\ status = "Filled" <=> (settled /\ ~open)
            /\ status = NotFound <=> (~open /\ ~settled)

\* C29 witness: of the three orders issued, the first is settled, the second
\* was cancelled and the third is open; the fourth id was never issued.
C29_Witness ==
    /\ next_id = 4
    /\ get_order_status(Broker, 1) = "Filled"
    /\ get_order_status(Broker, 2) = NotFound
    /\ get_order_status(Broker, 3) = "Open"
    /\ get_order_status(Broker, 4) = NotFound
    /\ Ids(executed_orders) = {1}
    /\ Ids(orders) = {3}

\* the order place_order built from its arguments, as handed to the pass
PlacedParent(r) == r.mid.orders[Len(orders) + 1]

\* C30 as claimed: in every reachable state, when place_order hands its
\* orders to execute_order, a buy-side order it created has had
\* quantity * price taken off the balance and a sell-side order it created
\* has had its quantity taken off holdings[symbol], as buy_stock and
\* sell_stock do.
C30_PlaceOrderReserves ==
    \A p \in Placements :
        LET r == Place(p)
            parent == PlacedParent(r)
        IN  r.ok =>
                /\ IsBuySide(parent) =>
                       r.mid.balance = balance - parent.quantity * parent.price
                /\ IsSellSide(parent) =>
                       /\ parent.symbol \in DOMAIN holdings
                       /\ r.mid.holdings
                              = SetHolding(holdings, parent.symbol,
                                           holdings[parent.symbol] - parent.quantity)

\* C30, the failure reached: the only order the account ever issued was
\* created by place_order, is not a stop-loss and is open, yet no cash is
\* taken (the balance is the starting balance) and no share is held.
C30_UnbackedOrderOpen ==
    /\ last.op = "place_order"
    /\ last.ret.truth
    /\ last.created = <<1>>
    /\ Len(orders) = 1
    /\ ~IsStopLoss(orders[1])
    /\ executed_orders = <<>>
    /\ holdings = EmptyHoldings
    /\ balance = StartBalance

\* ---- quantities ---------------------------------------------------------

\* every order of the open set and of the settled history
AllOrders ==
    {orders[i] : i \in 1..Len(orders)}
        \cup {executed_orders[i] : i \in 1..Len(executed_orders)}

\* C31 as claimed: whatever integer callers pass as quantity to buy_stock
\* and sell_stock, in every reachable state every order of the open set and
\* of the settled history has a quantity above zero (a quantity that is not
\* positive never produces an order).
C31_QuantitiesPositive ==
    \A o \in AllOrders : o.quantity > 0

\* C31, the failure reached: a buy_stock call has returned the id of an order
\* it created, and that order has a quantity that is not positive.
C31_NonPositiveQuantityOrder ==
    /\ last.op = "buy_stock"
    /\ last.ret.truth
    /\ \E o \in AllOrders : o.id = last.created[1] /\ o.quantity <= 0

\* ---- cancellation during a pass ------------------------------------------

\* C32 as claimed: when cancel_order runs while a pass is in progress, no
\* order is both cancelled (reservation reversed, call returned True) and
\* settled by that pass (cash or shares moved for it).
C32_NeverCancelledAndFilled ==
    last.op \in {"running", "finished"} => last.cancelled \cap last.applied = {}

\* C32, the failure reached: a pass has ended in its except clause after
\* moving shares or cash for an order that was cancelled, with its refund,
\* while the pass was in progress, and that order is neither open nor in
\* the history.
C32_CancelledAndFilled ==
    /\ last.op = "finished"
    /\ last.raised
    /\ \E id \in last.cancelled \cap last.applied :
           id \notin Ids(orders) \cup Ids(executed_orders)

\* ---- account summary -----------------------------------------------------

\* C33 as claimed: in every state and at every feed, failed quotes included,
\* get_account_summary returns a result and changes nothing; the result
\* carries the cash balance, the holdings, and the return of the
\* mark-to-market value cash + sum of quantity * quote over the holdings
\* whose quote did not fail.
C33_SummaryAlwaysReturns ==
    \A feed \in Feeds :
        LET r == get_account_summary(Broker, feed, INITIAL_BALANCE)
            priced == {x \in DOMAIN holdings : feed.quote[x] > 0}
            value == balance + SumOver(priced, [x \in priced |->
                                                holdings[x] * feed.quote[x]])
        IN  /\ r.b = Broker
            /\ ~r.raised
            /\ r.summary.balance = balance
            /\ r.summary.holdings = holdings
            /\ r.summary.portfolio_returns
                   = Quotient((value - INITIAL_BALANCE) * 100, INITIAL_BALANCE)

\* C33, the failure reached: get_account_summary has raised on an account
\* opened with balance 0.
C33_SummaryRaised ==
    /\ last.op = "get_account_summary"
    /\ last.raised
    /\ INITIAL_BALANCE = 0

\* ---- settlement applied once ----------------------------------------------

\* C34 as claimed: an order for which an iteration of a market-open pass
\* has credited or debited cash is not in the open set when that pass ends
\* (so no later pass settles it again).
C34_SettledOrderLeavesOpenSet ==
    \A feed \in OpenFeeds :
        \A i \in 1..Len(StepsOf(feed)) :
            LET st == StepsOf(feed)[i]
            IN  st.post.balance # st.pre.balance
                    => st.order.id \notin Ids(AfterPass(feed).orders)

\* C34, the failure reached: a pass has ended in its except clause, nothing
\* was ever filled, and the sell-side order at the head of the open set has
\* been credited more than once (the cash exceeds the opening balance by
\* more than one settlement of it).
C34_CreditedTwice ==
    /\ last.op = "execute_order"
    /\ last.market = "Open"
    /\ last.log = "Error occurred while executing orders"
    /\ executed_orders = <<>>
    /\ orders # <<>>
    /\ orders[1].type \in {"sell", "limit_sell", "sl_sell"}
    /\ \A i \in 2..Len(orders) : orders[i].type \in {"buy", "limit_buy"}
    /\ balance > StartBalance + orders[1].price * orders[1].quantity

\* ---- cash never negative --------------------------------------------------

\* C35 as claimed: the cash balance is never negative.
C35_BalanceNeverNegative == balance >= 0

\* C35, the failure reached: a market-open pass has filled a stop-loss buy
\* and left the cash balance below zero.
C35_OverdrawnByStopLossBuy ==
    /\ last.op = "execute_order"
    /\ last.market = "Open"
    /\ balance < 0
    /\ \E i \in 1..Len(executed_orders) : executed_orders[i].type = "sl_buy"

\* ---- the pass covers its snapshot ------------------------------------------

\* C36 as claimed: a market-open pass makes one iteration for every order
\* of its snapshot, in the snapshot's order, whatever happens while an
\* earlier order is processed.
C36_PassCoversSnapshot ==
    \A feed \in OpenFeeds :
        /\ Len(StepsOf(feed)) = Len(orders)
        /\ \A i \in 1..Len(StepsOf(feed)) : StepsOf(feed)[i].order = orders[i]

\* C36, the failure reached: a market-open pass has ended in its except
\* clause on the first open order, and a plain buy submitted after it, which
\* every iteration fills, is still open behind it.
C36_LaterOrderNotEvaluated ==
    /\ last.op = "execute_order"
    /\ last.market = "Open"
    /\ last.log = "Error occurred while executing orders"
    /\ Len(orders) >= 2
    /\ orders[1].type \in {"sell", "limit_sell", "sl_sell"}
    /\ orders[2].type = "buy"
    /\ orders[2].id > orders[1].id

\* ---- plain orders under repeated passes ------------------------------------

\* an open plain buy or sell with this id
OpenPlain(id) ==
    \E i \in 1..Len(orders) :
        orders[i].id = id /\ orders[i].type \in {"buy", "sell"}

\* C37 as claimed: when market-open passes keep being invoked, every open
\* plain buy or sell eventually leaves the open set (settled, or cancelled
\* before that).
C37_PlainOrdersEventuallyLeave ==
    \A id \in 1..MaxOrders : OpenPlain(id) ~> (id \notin Ids(orders))

\* C37, the failure reached: the latest market-open pass and every
\* market-open pass that can follow it at the same quotes ends in its
\* except clause on the sell-side order at the head of the open set, and a
\* plain order stands open behind it.
C37_PlainOrderStuck ==
    /\ last.op = "execute_order"
    /\ last.market = "Open"
    /\ last.log = "Error occurred while executing orders"
    /\ balance = ManyBalance
    /\ \E id \in 1..MaxOrders : OpenPlain(id)
    /\ \E feed \in OpenFeeds \cap FixedFeeds :
           /\ execute_pass(Broker, feed).raised
           /\ AfterPass(feed).orders = orders
           /\ AfterPass(feed).holdings = holdings
           /\ AfterPass(feed).executed_orders = executed_orders

\* ---- cancellation touches one order ----------------------------------------

\* the open orders of os other than the one with this id, in their order
OtherOrders(os, order_id) == SelectSeq(os, LAMBDA o : o.id # order_id)

\* C38: in every reachable state and for every id, cancel_order leaves in
\* the open set exactly the open orders with another id, each unchanged and
\* in the same order; in particular the stop-loss child created with a
\* parent (the next id) is still open, unchanged, after the parent is
\* cancelled.
C38_CancelRemovesOnlyThatOrder ==
    \A order_id \in OrderIds :
        LET r == cancel_order(Broker, order_id)
        IN  /\ r.b.orders = OtherOrders(orders, order_id)
            /\ \A i \in 1..Len(orders) :
                   (IsStopLoss(orders[i]) /\ orders[i].id = order_id + 1)
                       => InList(r.b.orders, orders[i])

\* C38, the case reached: a market-open pass has just run, a stop-loss
\* order is in the settled history, filled, and its parent (the id before
\* it) is neither open nor in the history: the parent was cancelled and the
\* child stayed open and filled later.
C38_ChildFilledAfterParentCancelled ==
    /\ last.op = "execute_order"
    /\ last.market = "Open"
    /\ \E i \in 1..Len(executed_orders) :
           /\ IsStopLoss(executed_orders[i])
           /\ executed_orders[i].status = "filled"
           /\ executed_orders[i].id - 1
                  \notin Ids(orders) \cup Ids(executed_orders)

\* ---- rate limiting ---------------------------------------------------------

\* number of admitted entries at a time in lo..hi
AdmittedIn(lo, hi) ==
    Cardinality({i \in 1..Len(clock.admitted) :
                    lo <= clock.admitted[i] /\ clock.admitted[i] <= hi})

\* C39 as claimed: under WAIT, no window of period seconds (t up to, not
\* including, t + period) contains more than max_calls admitted entries.
C39_WaitEnforcesLimit ==
    limiter.strategy = WAIT
        => \A t \in 0..MaxTime :
               AdmittedIn(t, t + limiter.period - 1) <= limiter.max_calls

\* C39, the failure reached: under WAIT, more than max_calls entries have
\* been admitted within less than period seconds, the earliest of them
\* after sleeping (its recorded timestamp is older than its admission).
C39_LimitExceeded ==
    /\ limiter.strategy = WAIT
    /\ clock.outcome = "admitted"
    /\ \E t \in 0..MaxTime :
           AdmittedIn(t, t + limiter.period - 1) > limiter.max_calls
    /\ \E i \in 1..Len(clock.admitted) :
           /\ clock.now - clock.admitted[i] < limiter.period
           /\ \A j \in 1..Len(limiter.calls) :
                  limiter.calls[j] # clock.admitted[i]

\* C40 as claimed: under THROW, an entry raises exactly when max_calls
\* entries were admitted within the last period seconds; otherwise it is
\* admitted and its timestamp recorded; a rejected entry records none.
C40_ThrowExactlyWhenExceeded ==
    limiter.strategy = THROW
        => LET r == enter(limiter, clock.now)
               recent == AdmittedIn(clock.now - limiter.period, clock.now)
           IN  /\ (r.outcome = "raised") <=> (recent >= limiter.max_calls)
               /\ r.outcome # "raised"
                      => /\ r.outcome = "admitted"
                         /\ r.rl.calls # <<>>
                         /\ r.rl.calls[Len(r.rl.calls)] = clock.now
               /\ r.outcome = "raised"
                      => \E k \in 0..Len(limiter.calls) :
                             r.rl.calls = SubSeq(limiter.calls, k + 1,
                                                 Len(limiter.calls))

\* C40, the failure reached: under THROW, the latest entry was rejected
\* although fewer than max_calls entries had been admitted within the last
\* period seconds.
C40_RejectedBelowLimit ==
    /\ limiter.strategy = THROW
    /\ clock.outcome = "raised"
    /\ AdmittedIn(clock.now - limiter.period, clock.now) < limiter.max_calls

====
